---- MODULE Spec2Model ----
(***************************************************************************)
(* Model of fetcher/scraper.py: fetch_case_details drives one browser      *)
(* session through navigation, form fill, the result wait, extraction and  *)
(* normalisation.  Every await of the function is one step of the model;   *)
(* the code between two awaits is part of the step that precedes it.       *)
(*                                                                         *)
(* Strings are modelled by what the code reads of them: a string is the    *)
(* sequence of its tokens, a token being a word, a run of white space or a *)
(* substring of the shape \d{2}-\d{2}-\d{4}.  A dict is a record whose     *)
(* fields are the keys the dict holds.  doc_type is not modelled.          *)
(***************************************************************************)
EXTENDS Integers, Sequences, FiniteSets, TLC

\* Largest number of result rows the site renders into the table body.
MaxRows == 2

\* Largest number of times the site re-renders the page after the search
\* was submitted.
MaxRenders == 2

---------------------------------------------------------------------------
\* Strings

W == [k |-> "w", d |-> 0, m |-> 0, y |-> 0]
S == [k |-> "s", d |-> 0, m |-> 0, y |-> 0]
D(dd, mm, yyyy) == [k |-> "d", d |-> dd, m |-> mm, y |-> yyyy]

\* Python None where a datetime is expected, and datetime.min (0001-01-01)
\* in the encoding year * 10000 + month * 100 + day.
NoDate == -1
DatetimeMin == 10101

\* Python None where an ISO date string is expected (an ISO date string is
\* never empty, so the empty sequence is free to stand for None and for "").
None == <<>>

\* JavaScript null / Python None for an href, next to the href strings.
NullHref == [null |-> TRUE, s |-> <<>>]
Href(str) == [null |-> FALSE, s |-> str]

\* String.prototype.trim
RECURSIVE LStrip(_)
LStrip(str) ==
    IF str # <<>> /\ Head(str).k = "s" THEN LStrip(Tail(str)) ELSE str

RECURSIVE RStrip(_)
RStrip(str) ==
    IF str # <<>> /\ str[Len(str)].k = "s"
    THEN RStrip(SubSeq(str, 1, Len(str) - 1))
    ELSE str

Trim(str) == RStrip(LStrip(str))

IsLeap(yyyy) == (yyyy % 4 = 0 /\ yyyy % 100 # 0) \/ yyyy % 400 = 0

DaysInMonth(mm, yyyy) ==
    IF mm = 2 THEN (IF IsLeap(yyyy) THEN 29 ELSE 28)
    ELSE IF mm \in {4, 6, 9, 11} THEN 30 ELSE 31

\* datetime.strptime(s, "%d-%m-%Y"); a ValueError is returned as NoDate
strptime(tok) ==
    IF /\ tok.y >= 1 /\ tok.y <= 9999
       /\ tok.m >= 1 /\ tok.m <= 12
       /\ tok.d >= 1 /\ tok.d <= DaysInMonth(tok.m, tok.y)
    THEN tok.y * 10000 + tok.m * 100 + tok.d
    ELSE NoDate

\* Variant: the last match is taken.
re_search_LastMatch(text) ==
    IF \E i \in 1..Len(text) : text[i].k = "d"
    THEN CHOOSE i \in 1..Len(text) :
            /\ text[i].k = "d"
            /\ \A j \in (i + 1)..Len(text) : text[j].k # "d"
    ELSE 0

\* re.search(r'(\d{2}-\d{2}-\d{4})', text): index of the first match, or 0
re_search(text) ==
    IF \E i \in 1..Len(text) : text[i].k = "d"
    THEN CHOOSE i \in 1..Len(text) :
            /\ text[i].k = "d"
            /\ \A j \in 1..(i - 1) : text[j].k # "d"
    ELSE 0

_parse_date_from_text(text) ==
    IF text = <<>> THEN NoDate
    ELSE IF re_search(text) # 0 THEN strptime(text[re_search(text)])
    ELSE NoDate

\* datetime.isoformat(): the fields of "YYYY-MM-DDT00:00:00" that vary
isoformat(dt) == <<dt \div 10000, (dt \div 100) % 100, dt % 100>>

\* str < str, on ISO date strings and ""
StrLess(a, b) ==
    \/ a = <<>> /\ b # <<>>
    \/ /\ a # <<>> /\ b # <<>>
       /\ \/ a[1] < b[1]
          \/ a[1] = b[1] /\ a[2] < b[2]
          \/ a[1] = b[1] /\ a[2] = b[2] /\ a[3] < b[3]

---------------------------------------------------------------------------
\* Normalizer (post-processing of the extracted rows)

\* lines 219-234: one entry of links_info
LinkInfo(link) ==
    LET txt == link.text
        href == IF link.href.null THEN <<>> ELSE link.href.s
        parsed_dt == IF _parse_date_from_text(txt) # NoDate
                     THEN _parse_date_from_text(txt)
                     ELSE _parse_date_from_text(href)
    IN  [text |-> txt, url |-> Href(href), date_obj |-> parsed_dt,
         date |-> IF parsed_dt # NoDate THEN isoformat(parsed_dt) ELSE None]

\* line 237: the sort key of a link
LinkKey(li) == IF li.date_obj # NoDate THEN li.date_obj ELSE DatetimeMin

\* list.sort(key=..., reverse=True) is stable: an element goes before the
\* first element whose key is smaller, after every element whose key is
\* equal or larger.
InsertLink(sorted, li) ==
    LET smaller == {i \in 1..Len(sorted) : LinkKey(sorted[i]) < LinkKey(li)}
        at == IF smaller = {} THEN Len(sorted) + 1
              ELSE CHOOSE i \in smaller : \A j \in smaller : i <= j
    IN  SubSeq(sorted, 1, at - 1) \o <<li>> \o SubSeq(sorted, at, Len(sorted))

RECURSIVE SortLinksFrom(_, _)
SortLinksFrom(sorted, rest) ==
    IF rest = <<>> THEN sorted
    ELSE SortLinksFrom(InsertLink(sorted, Head(rest)), Tail(rest))

\* line 237
SortLinks(links_info) == SortLinksFrom(<<>>, links_info)

\* line 239
LatestDate(links_info) ==
    IF links_info # <<>> /\ links_info[1].date # None
    THEN links_info[1].date
    ELSE None

\* lines 217-251: one entry of processed
ProcessRow(r) ==
    LET links_info == SortLinks([i \in 1..Len(r.links) |-> LinkInfo(r.links[i])])
    IN  [case_no |-> r.case_no,
         case_link |-> r.case_link,
         party |-> r.party,
         corrigendum |-> r.corrigendum,
         judgment_links |->
            [i \in 1..Len(links_info) |->
                [text |-> links_info[i].text, url |-> links_info[i].url,
                 date |-> links_info[i].date]],
         latest_judgment_date |-> LatestDate(links_info)]

\* lines 216-251
ProcessRows(rows) == [i \in 1..Len(rows) |-> ProcessRow(rows[i])]

RECURSIVE SelectSeq2(_, _)
SelectSeq2(seq, keep) ==
    IF seq = <<>> THEN <<>>
    ELSE IF Head(seq) \in keep
         THEN <<Head(seq)>> \o SelectSeq2(Tail(seq), keep)
         ELSE SelectSeq2(Tail(seq), keep)

\* line 254: the year prefixes of the dated records
Years(processed) ==
    {processed[i].latest_judgment_date[1] :
        i \in {j \in 1..Len(processed) : processed[j].latest_judgment_date # None}}

MaxOf(set) == CHOOSE x \in set : \A z \in set : z <= x

\* Variant: the records without a date pass the filter.
FilterLatestYear_KeepsUndated(processed) ==
    IF Years(processed) # {}
    THEN SelectSeq2(processed,
            {d \in {processed[i] : i \in 1..Len(processed)} :
                \/ d.latest_judgment_date = None
                \/ d.latest_judgment_date[1] = MaxOf(Years(processed))})
    ELSE processed

\* lines 254-257
FilterLatestYear(processed) ==
    IF Years(processed) # {}
    THEN SelectSeq2(processed,
            {d \in {processed[i] : i \in 1..Len(processed)} :
                /\ d.latest_judgment_date # None
                /\ d.latest_judgment_date[1] = MaxOf(Years(processed))})
    ELSE processed

\* line 260: list.sort(key=latest_judgment_date or "", reverse=True), stable
InsertRow(sorted, d) ==
    LET smaller == {i \in 1..Len(sorted) :
                        StrLess(sorted[i].latest_judgment_date,
                                d.latest_judgment_date)}
        at == IF smaller = {} THEN Len(sorted) + 1
              ELSE CHOOSE i \in smaller : \A j \in smaller : i <= j
    IN  SubSeq(sorted, 1, at - 1) \o <<d>> \o SubSeq(sorted, at, Len(sorted))

RECURSIVE SortRowsFrom(_, _)
SortRowsFrom(sorted, rest) ==
    IF rest = <<>> THEN sorted
    ELSE SortRowsFrom(InsertRow(sorted, Head(rest)), Tail(rest))

\* Variant: the records keep the order of the page.
SortRows_KeepsPageOrder(processed) == processed

\* line 260
SortRows(processed) == SortRowsFrom(<<>>, processed)

---------------------------------------------------------------------------
\* The page: what the code reads of the document

\* What the table body holds.  The code reads the body's rows only in the
\* extraction snapshot; before it, it reads whether the body exists, whether
\* it holds a td.dataTables_empty cell and whether that cell has text, whether
\* the first row's second cell has text, and the body's markup.
Kinds == {"none", "blank", "empty_text", "empty_blank", "rows_filled", "rows_hollow"}

NoPage == [table |-> FALSE, tbody |-> "none", gen |-> 0, spinner |-> FALSE,
           updates |-> 0]

\* The documents the site may serve for /app/case-number.
InitialDoms ==
    {[table |-> t, tbody |-> k, gen |-> 0, spinner |-> FALSE, updates |-> 0] :
        t \in BOOLEAN, k \in Kinds} \
    {[table |-> FALSE, tbody |-> k, gen |-> 0, spinner |-> FALSE, updates |-> 0] :
        k \in Kinds \ {"none"}}

\* tbody.innerHTML; two renderings of rows differ in their markup
EmptyMarkup == [kind |-> "blank", gen |-> 0]
Markup(d) ==
    IF d.tbody \in {"none", "blank"} THEN EmptyMarkup
    ELSE [kind |-> d.tbody, gen |-> d.gen]

HasTbody(d) == d.table /\ d.tbody # "none"

\* Variant: the count looks only at cells that have text.
HasEmptyCell_RequiresText(d) == HasTbody(d) /\ d.tbody = "empty_text"

\* locator("#s_judgeTable tbody td.dataTables_empty").count() > 0
HasEmptyCell(d) == HasTbody(d) /\ d.tbody \in {"empty_text", "empty_blank"}

\* lines 130-157: the predicate wait_for_function polls
ContentReady(d, initial) ==
    /\ HasTbody(d)
    /\ \/ d.tbody = "empty_text"
       \/ d.tbody = "rows_filled"
       \/ Markup(d) # initial

\* Anchors of a date cell
A_dated == [text |-> <<W, S, W, S, D(5, 3, 2024), S, W>>, href |-> <<W>>]
A_url == [text |-> <<W>>, href |-> <<W, D(1, 1, 2023), W>>]
A_none == [text |-> <<W, S, W, S, W>>, href |-> <<W>>]
A_min == [text |-> <<D(1, 1, 1)>>, href |-> <<W>>]
A_bad == [text |-> <<S, D(31, 2, 2024), S, D(1, 3, 2024)>>,
          href |-> <<W, D(1, 5, 2024), W>>]

\* A row of the table body: the number of its cells, the text and the anchor
\* of cell 1, the anchors and the text content of cell 2, the text of cells
\* 3 and 4.
FullRow(anchors, textContent) ==
    [tds |-> 5, case_no |-> <<S, W>>, case_href |-> Href(<<W>>),
     anchors |-> anchors, textContent |-> textContent,
     party |-> <<W, S, W>>, corrigendum |-> <<>>]

ShortRow(n) ==
    [tds |-> n, case_no |-> IF n >= 2 THEN <<W>> ELSE <<>>, case_href |-> NullHref,
     anchors |-> <<>>, textContent |-> <<>>, party |-> <<>>, corrigendum |-> <<>>]

HollowRow ==
    [tds |-> 5, case_no |-> <<S>>, case_href |-> NullHref,
     anchors |-> <<A_url>>, textContent |-> <<W>>,
     party |-> <<W>>, corrigendum |-> <<W>>]

RowSamples ==
    {FullRow(<<A_none, A_dated>>, <<W>>),
     FullRow(<<A_none, A_min>>, <<W>>),
     FullRow(<<A_dated, A_bad>>, <<W>>),
     FullRow(<<>>, <<S, D(1, 1, 2023), S>>),
     ShortRow(2),
     HollowRow}

RECURSIVE SeqsUpTo(_, _)
SeqsUpTo(set, n) ==
    IF n = 0 THEN {<<>>}
    ELSE SeqsUpTo(set, n - 1) \cup
         {Append(sq, x) : sq \in {z \in SeqsUpTo(set, n - 1) : Len(z) = n - 1},
                          x \in set}

Tables == SeqsUpTo(RowSamples, MaxRows)

\* line 145: the first row's second cell has text
FirstRowFilled(t) == Len(t) > 0 /\ t[1].tds >= 2 /\ Trim(t[1].case_no) # <<>>

\* The row elements the table body may hold, given what the page shows
TbodyRows(d) ==
    IF ~HasTbody(d) \/ d.tbody = "blank" THEN {<<>>}
    ELSE IF HasEmptyCell(d) THEN {<<ShortRow(1)>>}
    ELSE IF d.tbody = "rows_filled"
         THEN {t \in Tables : FirstRowFilled(t)}
         ELSE {t \in Tables : Len(t) > 0 /\ ~FirstRowFilled(t)}

\* lines 184-206: one element of out
ExtractRow(r) ==
    [case_no |-> IF r.tds >= 2 /\ r.case_no # <<>> THEN Trim(r.case_no) ELSE <<>>,
     case_link |-> IF r.tds >= 2 THEN r.case_href ELSE NullHref,
     party |-> IF r.tds >= 4 /\ r.party # <<>> THEN Trim(r.party) ELSE <<>>,
     corrigendum |-> IF r.tds >= 5 /\ r.corrigendum # <<>>
                     THEN Trim(r.corrigendum) ELSE <<>>,
     links |->
        IF r.tds < 3 THEN <<>>
        ELSE IF r.anchors # <<>>
             THEN [i \in 1..Len(r.anchors) |->
                     [text |-> Trim(r.anchors[i].text),
                      href |-> Href(r.anchors[i].href)]]
             ELSE IF r.textContent # <<>>
                  THEN <<[text |-> Trim(r.textContent), href |-> NullHref]>>
                  ELSE <<>>]

\* lines 176-211: the snapshot page.evaluate returns
ExtractRows(t) == [i \in 1..Len(t) |-> ExtractRow(t[i])]

---------------------------------------------------------------------------
\* fetch_case_details

VARIABLES
    captcha_text,   \* the argument: "" / None, or the text the caller supplied
    pc,             \* the await the call is at
    playwright,     \* the async_playwright() context: "idle", "running", "stopped"
    browser,        \* "none", "open", "closed"
    attempt,        \* _safe_goto: the number of failed page.goto calls
    delays,         \* _safe_goto: the asyncio.sleep durations, in order
    dom,            \* the page the browser shows
    initial_html,   \* the baseline markup of the table body
    rows,           \* the rows page.evaluate returned
    processed,      \* processed, as built by lines 216-251, before line 254
    handler,        \* the except block whose page.content() is awaited
    exc,            \* the exception propagating out of the call, or "none"
    result,         \* the dict given to return; NoReturn while there is none
    ran,            \* the steps of the pipeline that were started
    obs             \* what the run met: which form step raised, what the CAPTCHA
                    \* read and the content wait found, what the NO_DATA check saw

fetch == <<captcha_text, pc, playwright, browser, attempt, delays, dom,
           initial_html, rows, processed, handler, exc, result, ran, obs>>

\* The caller of the call above (search_view), and several calls in flight.
VARIABLES
    request,        \* the HTTP request search_view handles, or NoRequest
    view,           \* search_view: the await it is at, and its response
    querylog,       \* the rows of the QueryLog table, oldest first
    calls,          \* per concurrent call: its position, locals and result
    chromium        \* the browsers launched so far, in launch order

outer == <<request, view, querylog, calls, chromium>>

vars == <<fetch, outer>>

\* _safe_goto(..., retries=3, ...), line 51
Retries == 3

NoReturn == [status |-> "NONE"]

\* fetch_case_details called directly, not by search_view
NoRequest == [method |-> "NONE"]
NoView == [pc |-> "none", response |-> "none"]

MsgUnreachable == "Unable to reach court site: {e}"
MsgCaptchaEmpty ==
    "Unable to read CAPTCHA from page; please provide captcha_text (manual input)."
MsgCaptchaUnreadable ==
    "CAPTCHA not readable automatically; please provide captcha_text (manual input)."
MsgSubmit == "Error submitting form: {e}"
MsgNoTable == "Search result table not found on page."
MsgTimedOut ==
    "Timed out waiting for search results. The court website may be slow or unavailable right now."
MsgNoData == "No matching records found. Please re-check the inputs and try again."
MsgExtract == "Failed to extract rows: {e}"
MsgUnexpected == "Unexpected error: {e}"

\* What page.content() returns, and the text line 268 puts in its place.
PageContent == "page.content()"
Unavailable == "<unavailable>"

Error(msg) == [status |-> "ERROR", message |-> msg]
ErrorRaw(msg, raw) == [status |-> "ERROR", message |-> msg, raw_html |-> raw]
\* Variant: the NO_DATA dict carries the markup the way the ERROR dicts do.
NoData_WithRawHtml ==
    [status |-> "NO_DATA", message |-> MsgNoData, raw_html |-> PageContent]

\* line 169
NoData == [status |-> "NO_DATA", message |-> MsgNoData]
Success(data) == [status |-> "SUCCESS", data |-> data]

HandlerMsg(h) ==
    CASE h = "submit" -> MsgSubmit
      [] h = "table" -> MsgNoTable
      [] h = "timeout" -> MsgTimedOut
      [] h = "extract" -> MsgExtract
      [] OTHER -> MsgUnexpected

NoObs == [formFault |-> "none", captcha |-> "none", spinner |-> "none",
          contentWait |-> "none", check |-> "none", checkTbody |-> "none"]

Init ==
    /\ captcha_text \in {<<>>, <<W>>}
    /\ pc = "launch"
    /\ playwright = "running"
    /\ browser = "none"
    /\ attempt = 0
    /\ delays = <<>>
    /\ dom = NoPage
    /\ initial_html = EmptyMarkup
    /\ rows = <<>>
    /\ processed = <<>>
    /\ handler = "none"
    /\ exc = "none"
    /\ result = NoReturn
    /\ ran = {}
    /\ obs = NoObs
    /\ request = NoRequest
    /\ view = NoView
    /\ querylog = <<>>
    /\ calls = <<>>
    /\ chromium = <<>>

\* A step that only moves the call on.
Goes(to) ==
    /\ pc' = to
    /\ UNCHANGED <<outer, captcha_text, playwright, browser, attempt, delays, dom,
                   initial_html, rows, processed, handler, exc, result, obs>>

\* return <dict> inside the try of line 48: the finally block runs next.
Returns(value) ==
    /\ result' = value
    /\ pc' = "finally"
    /\ UNCHANGED <<outer, captcha_text, playwright, browser, attempt, delays, dom,
                   initial_html, rows, processed, handler, exc>>

\* An except block that returns a dict with raw_html: page.content() is
\* awaited first.
Handles(h) ==
    /\ handler' = h
    /\ pc' = "content"
    /\ UNCHANGED <<outer, captcha_text, playwright, browser, attempt, delays, dom,
                   initial_html, rows, processed, exc, result>>

\* line 46
Launch ==
    /\ pc = "launch"
    /\ browser' = "open"
    /\ pc' = "new_page"
    /\ UNCHANGED <<outer, captcha_text, playwright, attempt, delays, dom, initial_html,
                   rows, processed, handler, exc, result, ran, obs>>

\* line 46 raises: outside the try of line 48
LaunchFails ==
    /\ pc = "launch"
    /\ exc' = "launch"
    /\ pc' = "exit"
    /\ UNCHANGED <<outer, captcha_text, playwright, browser, attempt, delays, dom,
                   initial_html, rows, processed, handler, result, ran, obs>>

\* line 47
NewPage ==
    /\ pc = "new_page"
    /\ Goes("goto")
    /\ UNCHANGED ran

\* line 47 raises: outside the try of line 48, so line 271 is not reached
NewPageFails ==
    /\ pc = "new_page"
    /\ exc' = "new_page"
    /\ pc' = "exit"
    /\ UNCHANGED <<outer, captcha_text, playwright, browser, attempt, delays, dom,
                   initial_html, rows, processed, handler, result, ran, obs>>

\* lines 23-26: page.goto succeeds; the site serves the search page, and
\* _safe_goto returns, which ends the life of its locals
Goto ==
    /\ pc = "goto"
    /\ attempt < Retries
    /\ \E d \in InitialDoms : dom' = d
    /\ attempt' = 0
    /\ delays' = <<>>
    /\ ran' = ran \cup {"goto"}
    /\ pc' = "select_case_type"
    /\ UNCHANGED <<outer, captcha_text, playwright, browser, initial_html, rows,
                   processed, handler, exc, result, obs>>

\* Variant: the last exception is swallowed and the form is filled.
GotoFails_FallsThrough ==
    /\ pc = "goto"
    /\ attempt < Retries
    /\ attempt' = attempt + 1
    /\ delays' = Append(delays, 1 + attempt)
    /\ ran' = ran \cup {"goto"}
    /\ pc' = IF attempt + 1 = Retries THEN "select_case_type" ELSE "goto"
    /\ UNCHANGED <<outer, captcha_text, playwright, browser, dom, initial_html, rows,
                   processed, handler, exc, result, obs>>

\* lines 27-31 and 52-53: page.goto raises; sleep, then the next attempt, or
\* the last exception is raised and line 53 returns
GotoFails ==
    /\ pc = "goto"
    /\ attempt < Retries
    /\ attempt' = attempt + 1
    /\ delays' = Append(delays, 1 + attempt)
    /\ ran' = ran \cup {"goto"}
    /\ IF attempt + 1 = Retries
       THEN /\ result' = Error(MsgUnreachable)
            /\ pc' = "finally"
       ELSE /\ result' = result
            /\ pc' = "goto"
    /\ UNCHANGED <<outer, captcha_text, playwright, browser, dom, initial_html, rows,
                   processed, handler, exc, obs>>

\* lines 59, 68: _select("#case_type"), by value
SelectCaseType ==
    /\ pc = "select_case_type"
    /\ Goes("fill_case_number")
    /\ ran' = ran \cup {"fill"}

\* line 59 raises: line 63 is tried
SelectCaseTypeFails ==
    /\ pc = "select_case_type"
    /\ Goes("select_case_type_label")
    /\ ran' = ran \cup {"fill"}

\* line 63: by label
SelectCaseTypeByLabel ==
    /\ pc = "select_case_type_label"
    /\ Goes("fill_case_number")
    /\ UNCHANGED ran

\* line 63 raises: lines 64-66, the field is left as it is
SelectCaseTypeByLabelFails ==
    /\ pc = "select_case_type_label"
    /\ Goes("fill_case_number")
    /\ UNCHANGED ran

\* line 69
FillCaseNumber ==
    /\ pc = "fill_case_number"
    /\ Goes("select_year")
    /\ UNCHANGED ran

\* line 69 raises: line 89
FillCaseNumberFails ==
    /\ pc = "fill_case_number"
    /\ Handles("submit")
    /\ obs' = [obs EXCEPT !.formFault = "fill_case_number"]
    /\ UNCHANGED ran

\* lines 59, 70: _select("#year"), by value
SelectYear ==
    /\ pc = "select_year"
    /\ Goes("captcha")
    /\ UNCHANGED ran

\* line 59 raises: line 63 is tried
SelectYearFails ==
    /\ pc = "select_year"
    /\ Goes("select_year_label")
    /\ UNCHANGED ran

\* line 63: by label
SelectYearByLabel ==
    /\ pc = "select_year_label"
    /\ Goes("captcha")
    /\ UNCHANGED ran

\* line 63 raises: lines 64-66
SelectYearByLabelFails ==
    /\ pc = "select_year_label"
    /\ Goes("captcha")
    /\ UNCHANGED ran

\* lines 73-74: the supplied text is filled in
FillCaptchaSupplied ==
    /\ pc = "captcha"
    /\ captcha_text # <<>>
    /\ pc' = "click"
    /\ obs' = [obs EXCEPT !.captcha = "supplied"]
    /\ UNCHANGED <<outer, captcha_text, playwright, browser, attempt, delays, dom,
                   initial_html, rows, processed, handler, exc, result, ran>>

\* line 74 raises: line 89
FillCaptchaSuppliedFails ==
    /\ pc = "captcha"
    /\ captcha_text # <<>>
    /\ Handles("submit")
    /\ obs' = [obs EXCEPT !.formFault = "fill_captcha_supplied"]
    /\ UNCHANGED ran

\* lines 78-80: inner_text reads a non-empty text
ReadCaptcha ==
    /\ pc = "captcha"
    /\ captcha_text = <<>>
    /\ pc' = "fill_captcha_auto"
    /\ obs' = [obs EXCEPT !.captcha = "read"]
    /\ UNCHANGED <<outer, captcha_text, playwright, browser, attempt, delays, dom,
                   initial_html, rows, processed, handler, exc, result, ran>>

\* Variant: the empty text is filled in and the form is submitted.
ReadCaptchaEmpty_FillsAnyway ==
    /\ pc = "captcha"
    /\ captcha_text = <<>>
    /\ pc' = "fill_captcha_auto"
    /\ obs' = [obs EXCEPT !.captcha = "empty"]
    /\ UNCHANGED <<outer, captcha_text, playwright, browser, attempt, delays, dom,
                   initial_html, rows, processed, handler, exc, result, ran>>

\* lines 78-83: inner_text reads an empty or blank text
ReadCaptchaEmpty ==
    /\ pc = "captcha"
    /\ captcha_text = <<>>
    /\ Returns(Error(MsgCaptchaEmpty))
    /\ obs' = [obs EXCEPT !.captcha = "empty"]
    /\ UNCHANGED ran

\* lines 78, 84-85: the element is absent or not readable within 3 s
ReadCaptchaFails ==
    /\ pc = "captcha"
    /\ captcha_text = <<>>
    /\ Returns(Error(MsgCaptchaUnreadable))
    /\ obs' = [obs EXCEPT !.captcha = "absent"]
    /\ UNCHANGED ran

\* line 81
FillCaptchaAuto ==
    /\ pc = "fill_captcha_auto"
    /\ Goes("click")
    /\ UNCHANGED ran

\* line 81 raises inside the try of line 76: line 84 catches it
FillCaptchaAutoFails ==
    /\ pc = "fill_captcha_auto"
    /\ Returns(Error(MsgCaptchaUnreadable))
    /\ obs' = [obs EXCEPT !.formFault = "fill_captcha_auto"]
    /\ UNCHANGED ran

\* line 88
Click ==
    /\ pc = "click"
    /\ Goes("wait_table")
    /\ ran' = ran \cup {"click"}

\* line 88 raises: line 89
ClickFails ==
    /\ pc = "click"
    /\ Handles("submit")
    /\ obs' = [obs EXCEPT !.formFault = "click"]
    /\ ran' = ran \cup {"click"}

\* The search was submitted: the click of line 88 went through.
Submitted == "click" \in ran /\ obs.formFault # "click"

\* The site's scripts change the page while the call is suspended in an await.
SiteActive == Submitted /\ browser = "open" /\ pc \notin {"finally", "exit", "done"}
                /\ dom.updates < MaxRenders

SiteShowsSpinner ==
    /\ SiteActive
    /\ ~dom.spinner
    /\ dom' = [dom EXCEPT !.spinner = TRUE, !.updates = @ + 1]
    /\ UNCHANGED <<outer, captcha_text, pc, playwright, browser, attempt, delays,
                   initial_html, rows, processed, handler, exc, result, ran, obs>>

SiteHidesSpinner ==
    /\ SiteActive
    /\ dom.spinner
    /\ dom' = [dom EXCEPT !.spinner = FALSE, !.updates = @ + 1]
    /\ UNCHANGED <<outer, captcha_text, pc, playwright, browser, attempt, delays,
                   initial_html, rows, processed, handler, exc, result, ran, obs>>

SiteRendersTable ==
    /\ SiteActive
    /\ \E k \in Kinds \ {"none"} :
          dom' = [dom EXCEPT !.table = TRUE, !.tbody = k, !.gen = @ + 1,
                             !.updates = @ + 1]
    /\ UNCHANGED <<outer, captcha_text, pc, playwright, browser, attempt, delays,
                   initial_html, rows, processed, handler, exc, result, ran, obs>>

\* line 98: the table element exists
WaitTable ==
    /\ pc = "wait_table"
    /\ dom.table
    /\ Goes("wait_spinner")
    /\ ran' = ran \cup {"wait_table"}

\* line 98 raises (the timeout passed, or the page failed): lines 99-101
WaitTableFails ==
    /\ pc = "wait_table"
    /\ Handles("table")
    /\ ran' = ran \cup {"wait_table"}
    /\ UNCHANGED obs

\* line 107: the processing indicator is visible
WaitSpinnerVisible ==
    /\ pc = "wait_spinner"
    /\ dom.spinner
    /\ pc' = "wait_spinner_hidden"
    /\ obs' = [obs EXCEPT !.spinner = "seen"]
    /\ ran' = ran \cup {"wait_spinner"}
    /\ UNCHANGED <<outer, captcha_text, playwright, browser, attempt, delays, dom,
                   initial_html, rows, processed, handler, exc, result>>

\* line 107 raises: lines 110-112
WaitSpinnerVisibleFails ==
    /\ pc = "wait_spinner"
    /\ pc' = "baseline"
    /\ obs' = [obs EXCEPT !.spinner = "unseen"]
    /\ ran' = ran \cup {"wait_spinner"}
    /\ UNCHANGED <<outer, captcha_text, playwright, browser, attempt, delays, dom,
                   initial_html, rows, processed, handler, exc, result>>

\* Variant: the wait for the hidden indicator returns at once.
WaitSpinnerHidden_ReturnsAtOnce ==
    /\ pc = "wait_spinner_hidden"
    /\ pc' = "baseline"
    /\ obs' = [obs EXCEPT !.spinner = "hidden"]
    /\ UNCHANGED <<outer, captcha_text, playwright, browser, attempt, delays, dom,
                   initial_html, rows, processed, handler, exc, result, ran>>

\* line 109: the indicator is hidden again
WaitSpinnerHidden ==
    /\ pc = "wait_spinner_hidden"
    /\ ~dom.spinner
    /\ pc' = "baseline"
    /\ obs' = [obs EXCEPT !.spinner = "hidden"]
    /\ UNCHANGED <<outer, captcha_text, playwright, browser, attempt, delays, dom,
                   initial_html, rows, processed, handler, exc, result, ran>>

\* line 109 raises: lines 110-112
WaitSpinnerHiddenFails ==
    /\ pc = "wait_spinner_hidden"
    /\ pc' = "baseline"
    /\ obs' = [obs EXCEPT !.spinner = "stuck"]
    /\ UNCHANGED <<outer, captcha_text, playwright, browser, attempt, delays, dom,
                   initial_html, rows, processed, handler, exc, result, ran>>

\* lines 116-119: the baseline is the body's markup, "" without a body
CaptureBaseline ==
    /\ pc = "baseline"
    /\ initial_html' = IF HasTbody(dom) THEN Markup(dom) ELSE EmptyMarkup
    /\ pc' = "wait_content"
    /\ UNCHANGED <<outer, captcha_text, playwright, browser, attempt, delays, dom,
                   rows, processed, handler, exc, result, ran, obs>>

\* lines 118-121: count() or inner_html() raises
CaptureBaselineFails ==
    /\ pc = "baseline"
    /\ initial_html' = EmptyMarkup
    /\ pc' = "wait_content"
    /\ UNCHANGED <<outer, captcha_text, playwright, browser, attempt, delays, dom,
                   rows, processed, handler, exc, result, ran, obs>>

\* lines 128-161: the predicate holds at a poll
WaitContent ==
    /\ pc = "wait_content"
    /\ ContentReady(dom, initial_html)
    /\ pc' = "check"
    /\ obs' = [obs EXCEPT !.contentWait = "met"]
    /\ ran' = ran \cup {"wait_content"}
    /\ UNCHANGED <<outer, captcha_text, playwright, browser, attempt, delays, dom,
                   initial_html, rows, processed, handler, exc, result>>

\* Variant: the timeout is ignored, as the spinner's is.
WaitContentFails_Proceeds ==
    /\ pc = "wait_content"
    /\ pc' = "check"
    /\ obs' = [obs EXCEPT !.contentWait =
                  IF ContentReady(dom, initial_html) THEN "raised" ELSE "unmet"]
    /\ ran' = ran \cup {"wait_content"}
    /\ UNCHANGED <<outer, captcha_text, playwright, browser, attempt, delays, dom,
                   initial_html, rows, processed, handler, exc, result>>

\* lines 162-164: wait_for_function raises; when the predicate does not hold
\* the timeout has passed with none of its conditions met
WaitContentFails ==
    /\ pc = "wait_content"
    /\ Handles("timeout")
    /\ obs' = [obs EXCEPT !.contentWait =
                  IF ContentReady(dom, initial_html) THEN "raised" ELSE "unmet"]
    /\ ran' = ran \cup {"wait_content"}

\* lines 168-169: the body holds a td.dataTables_empty cell
CheckFindsEmptyCell ==
    /\ pc = "check"
    /\ HasEmptyCell(dom)
    /\ Returns(NoData)
    /\ obs' = [obs EXCEPT !.check = "found", !.checkTbody = dom.tbody]
    /\ ran' = ran \cup {"check"}

\* line 168: it holds none
CheckFindsNone ==
    /\ pc = "check"
    /\ ~HasEmptyCell(dom)
    /\ pc' = "extract"
    /\ obs' = [obs EXCEPT !.check = "absent", !.checkTbody = dom.tbody]
    /\ ran' = ran \cup {"check"}
    /\ UNCHANGED <<outer, captcha_text, playwright, browser, attempt, delays, dom,
                   initial_html, rows, processed, handler, exc, result>>

\* lines 170-172: count() raises; ignored
CheckFails ==
    /\ pc = "check"
    /\ pc' = "extract"
    /\ obs' = [obs EXCEPT !.check = "failed", !.checkTbody = dom.tbody]
    /\ ran' = ran \cup {"check"}
    /\ UNCHANGED <<outer, captcha_text, playwright, browser, attempt, delays, dom,
                   initial_html, rows, processed, handler, exc, result>>

\* lines 253-262: filter to the latest year, sort, return
Normalize(prc) == Success(SortRows(FilterLatestYear(prc)))

\* lines 176-262: the snapshot, then the post-processing, which awaits nothing
Extract ==
    /\ pc = "extract"
    /\ \E t \in TbodyRows(dom) :
          /\ rows' = ExtractRows(t)
          /\ processed' = ProcessRows(ExtractRows(t))
          /\ result' = Normalize(ProcessRows(ExtractRows(t)))
    /\ pc' = "finally"
    /\ ran' = ran \cup {"extract", "normalize"}
    /\ UNCHANGED <<outer, captcha_text, playwright, browser, attempt, delays, dom,
                   initial_html, handler, exc, obs>>

\* Variant: a failed extraction is attempted again.
ExtractFails_Retries ==
    /\ pc = "extract"
    /\ Goes("extract")
    /\ ran' = ran \cup {"extract"}

\* lines 212-213: page.evaluate raises
ExtractFails ==
    /\ pc = "extract"
    /\ Handles("extract")
    /\ ran' = ran \cup {"extract"}
    /\ UNCHANGED obs

\* lines 90, 101, 164, 213, 266: page.content() returns and the dict is returned
HandlerContent ==
    /\ pc = "content"
    /\ Returns(ErrorRaw(HandlerMsg(handler), PageContent))
    /\ UNCHANGED <<ran, obs>>

\* page.content() raises inside an except block of the pipeline: line 264
HandlerContentFails ==
    /\ pc = "content"
    /\ handler # "unexpected"
    /\ Handles("unexpected")
    /\ UNCHANGED <<ran, obs>>

\* line 266 raises: lines 267-269
UnexpectedContentFails ==
    /\ pc = "content"
    /\ handler = "unexpected"
    /\ Returns(ErrorRaw(MsgUnexpected, Unavailable))
    /\ UNCHANGED <<ran, obs>>

\* lines 270-271
Close ==
    /\ pc = "finally"
    /\ browser' = "closed"
    /\ pc' = "exit"
    /\ UNCHANGED <<outer, captcha_text, playwright, attempt, delays, dom, initial_html,
                   rows, processed, handler, exc, result, ran, obs>>

\* line 271 raises: the exception replaces the value being returned
CloseFails ==
    /\ pc = "finally"
    /\ exc' = "close"
    /\ result' = NoReturn
    /\ pc' = "exit"
    /\ UNCHANGED <<outer, captcha_text, playwright, browser, attempt, delays, dom,
                   initial_html, rows, processed, handler, ran, obs>>

\* line 45: the async with block is left; the call returns or raises
ExitContext ==
    /\ pc = "exit"
    /\ playwright' = "stopped"
    /\ pc' = "done"
    /\ UNCHANGED <<outer, captcha_text, browser, attempt, delays, dom, initial_html,
                   rows, processed, handler, exc, result, ran, obs>>

\* Every operation of the pipeline may fail; page.content() in an except block
\* and browser.close() in the finally block succeed.
Next ==
    \/ Launch \/ LaunchFails \/ NewPage \/ NewPageFails
    \/ Goto \/ GotoFails
    \/ SelectCaseType \/ SelectCaseTypeFails
    \/ SelectCaseTypeByLabel \/ SelectCaseTypeByLabelFails
    \/ FillCaseNumber \/ FillCaseNumberFails
    \/ SelectYear \/ SelectYearFails \/ SelectYearByLabel \/ SelectYearByLabelFails
    \/ FillCaptchaSupplied \/ FillCaptchaSuppliedFails
    \/ ReadCaptcha \/ ReadCaptchaEmpty \/ ReadCaptchaFails
    \/ FillCaptchaAuto \/ FillCaptchaAutoFails
    \/ Click \/ ClickFails
    \/ SiteShowsSpinner \/ SiteHidesSpinner \/ SiteRendersTable
    \/ WaitTable \/ WaitTableFails
    \/ WaitSpinnerVisible \/ WaitSpinnerVisibleFails
    \/ WaitSpinnerHidden \/ WaitSpinnerHiddenFails
    \/ CaptureBaseline \/ CaptureBaselineFails
    \/ WaitContent \/ WaitContentFails
    \/ CheckFindsEmptyCell \/ CheckFindsNone \/ CheckFails
    \/ Extract \/ ExtractFails
    \/ HandlerContent
    \/ Close \/ ExitContext

Spec == Init /\ [][Next]_vars

\* As Next, and page.content() and browser.close() may fail wherever they
\* are awaited.
NextAllFaults ==
    \/ Next
    \/ HandlerContentFails \/ UnexpectedContentFails
    \/ CloseFails

SpecAllFaults == Init /\ [][NextAllFaults]_vars

----------------------------------------------------------------------------
\* Several calls of fetch_case_details in flight at once (search_view is an
\* async view: every POST request awaits its own call, views.py line 31).
\* Each call is followed at the grain of the object its awaits act on.

MaxCalls == 2

NoHandle == 0

\* A call that has not started: its locals browser and page are unbound.
NewCall == [pc |-> "launch", browser |-> NoHandle, page |-> NoHandle,
            exc |-> "none", result |-> NoReturn]

\* What p.chromium.launch() creates (line 46).  The history fields tell which
\* calls acted on the browser or its page and which call closed it; shows is
\* the search whose results the page displays.
NewBrowser(c) == [launchedBy |-> c, open |-> TRUE, hasPage |-> FALSE,
                  shows |-> 0, usedBy |-> {}, closedBy |-> 0]

\* The fetch variables while fetch_case_details is only followed through
\* calls.
NotCalled ==
    /\ captcha_text = <<>>
    /\ pc = "idle"
    /\ playwright = "idle"
    /\ browser = "none"
    /\ attempt = 0
    /\ delays = <<>>
    /\ dom = NoPage
    /\ initial_html = EmptyMarkup
    /\ rows = <<>>
    /\ processed = <<>>
    /\ handler = "none"
    /\ exc = "none"
    /\ result = NoReturn
    /\ ran = {}
    /\ obs = NoObs

InitConcurrent ==
    /\ NotCalled
    /\ request = NoRequest
    /\ view = NoView
    /\ querylog = <<>>
    /\ calls = [c \in 1..MaxCalls |-> NewCall]
    /\ chromium = <<>>

\* Variant: the browser is kept in a module-level name that every call
\* rebinds, so a call acts on the browser launched last.
BrowserOf_ModuleLevel(c) == Len(chromium)

\* line 46: browser is a local of the call
BrowserOf(c) == calls[c].browser

\* line 47: page is a local of the call
PageOf(c) == calls[c].page

\* line 46: browser = await p.chromium.launch(headless=True)
CallLaunch(c) ==
    /\ calls[c].pc = "launch"
    /\ chromium' = Append(chromium, NewBrowser(c))
    /\ calls' = [calls EXCEPT ![c].browser = Len(chromium) + 1,
                              ![c].pc = "new_page"]
    /\ UNCHANGED <<fetch, request, view, querylog>>

\* line 46 raises: before the try, the exception leaves the call
CallLaunchFails(c) ==
    /\ calls[c].pc = "launch"
    /\ calls' = [calls EXCEPT ![c].exc = "launch", ![c].pc = "done"]
    /\ UNCHANGED <<fetch, request, view, querylog, chromium>>

\* line 47: page = await browser.new_page()
CallNewPage(c) ==
    /\ calls[c].pc = "new_page"
    /\ chromium[BrowserOf(c)].open
    /\ chromium' = [chromium EXCEPT
                        ![BrowserOf(c)].hasPage = TRUE,
                        ![BrowserOf(c)].usedBy = @ \cup {c}]
    /\ calls' = [calls EXCEPT ![c].page = BrowserOf(c), ![c].pc = "goto"]
    /\ UNCHANGED <<fetch, request, view, querylog>>

\* line 47 raises: before the try, so line 271 is not reached
CallNewPageFails(c) ==
    /\ calls[c].pc = "new_page"
    /\ chromium' = [chromium EXCEPT ![BrowserOf(c)].usedBy = @ \cup {c}]
    /\ calls' = [calls EXCEPT ![c].exc = "new_page", ![c].pc = "done"]
    /\ UNCHANGED <<fetch, request, view, querylog>>

\* An await on page that succeeds: the page must still be there.
PageStep(c, from, to, shows) ==
    /\ calls[c].pc = from
    /\ chromium[PageOf(c)].open /\ chromium[PageOf(c)].hasPage
    /\ chromium' = [chromium EXCEPT ![PageOf(c)].shows = shows,
                                    ![PageOf(c)].usedBy = @ \cup {c}]
    /\ calls' = [calls EXCEPT ![c].pc = to]
    /\ UNCHANGED <<fetch, request, view, querylog>>

\* lines 50-51: the search form is loaded
CallGoto(c) == PageStep(c, "goto", "submit", 0)

\* lines 56-88: the form is filled with the call's arguments and submitted;
\* the page then displays the results of that search
CallSubmit(c) == PageStep(c, "submit", "evaluate", c)

\* lines 97-262: the waits, the extraction and the post-processing read the
\* page and give the result
CallEvaluate(c) ==
    /\ calls[c].pc = "evaluate"
    /\ chromium[PageOf(c)].open /\ chromium[PageOf(c)].hasPage
    /\ chromium' = [chromium EXCEPT ![PageOf(c)].usedBy = @ \cup {c}]
    /\ calls' = [calls EXCEPT
                    ![c].result = Success(<<chromium[PageOf(c)].shows>>),
                    ![c].pc = "close"]
    /\ UNCHANGED <<fetch, request, view, querylog>>

\* lines 52-53, 89-90, 99-101, 157-161, 209-213: an await on page raises and
\* the call returns an ERROR result
CallPageFails(c) ==
    /\ calls[c].pc \in {"goto", "submit", "evaluate"}
    /\ chromium' = [chromium EXCEPT ![PageOf(c)].usedBy = @ \cup {c}]
    /\ calls' = [calls EXCEPT ![c].result = Error(MsgUnexpected),
                              ![c].pc = "close"]
    /\ UNCHANGED <<fetch, request, view, querylog>>

\* line 271: await browser.close()
CallClose(c) ==
    /\ calls[c].pc = "close"
    /\ chromium' = [chromium EXCEPT ![BrowserOf(c)].open = FALSE,
                                    ![BrowserOf(c)].closedBy = c,
                                    ![BrowserOf(c)].usedBy = @ \cup {c}]
    /\ calls' = [calls EXCEPT ![c].pc = "done"]
    /\ UNCHANGED <<fetch, request, view, querylog>>

NextConcurrent ==
    \E c \in 1..MaxCalls :
        \/ CallLaunch(c) \/ CallLaunchFails(c)
        \/ CallNewPage(c) \/ CallNewPageFails(c)
        \/ CallGoto(c) \/ CallSubmit(c) \/ CallEvaluate(c)
        \/ CallPageFails(c)
        \/ CallClose(c)

SpecConcurrent == InitConcurrent /\ [][NextConcurrent]_vars

----------------------------------------------------------------------------
\* search_view and log_query_to_db (views.py)

\* The form fields of a POST request (lines 26-28).
Forms == {[case_type |-> "W.P.(C)", case_number |-> "123", case_year |-> "2024"],
          [case_type |-> "CS(OS)", case_number |-> "45", case_year |-> "2023"]}

Post(form) == [method |-> "POST", case_type |-> form.case_type,
               case_number |-> form.case_number, case_year |-> form.case_year]

Get == [method |-> "GET"]

\* A row that an earlier request left in the QueryLog table.
EarlierEntry == [case_type |-> "FAO", case_number |-> "7", case_year |-> "2019",
                 raw_response |-> "", status |-> "NO_DATA",
                 error_message |-> MsgNoData]

\* lines 12-19: the row QueryLog.objects.create() is given
Entry(req, res) ==
    [case_type |-> req.case_type,
     case_number |-> req.case_number,
     case_year |-> req.case_year,
     raw_response |-> IF "raw_html" \in DOMAIN res THEN res.raw_html ELSE "",
     status |-> res.status,
     error_message |-> IF "message" \in DOMAIN res THEN res.message ELSE ""]

\* lines 37-43: the template and its context
Page(res) ==
    IF res.status = "SUCCESS"
    THEN [template |-> "fetcher/results.html", data |-> res.data]
    ELSE [template |-> "fetcher/error.html", message |-> res.message]

IndexPage == [template |-> "fetcher/index.html"]

\* An exception leaves search_view: no response is rendered.
Raised == [template |-> "none"]

\* line 31: fetch_case_details(case_type, case_number, case_year), so
\* captcha_text takes its default
Called ==
    /\ captcha_text = <<>>
    /\ pc = "launch"
    /\ playwright = "running"
    /\ browser = "none"
    /\ attempt = 0
    /\ delays = <<>>
    /\ dom = NoPage
    /\ initial_html = EmptyMarkup
    /\ rows = <<>>
    /\ processed = <<>>
    /\ handler = "none"
    /\ exc = "none"
    /\ result = NoReturn
    /\ ran = {}
    /\ obs = NoObs

InitView ==
    /\ request \in {Post(f) : f \in Forms} \cup {Get}
    /\ querylog \in {<<>>, <<EarlierEntry>>}
    /\ \/ request.method = "POST" /\ Called
          /\ view = [pc |-> "fetch", response |-> "none"]
       \/ request.method = "GET" /\ NotCalled
          /\ view = [pc |-> "index", response |-> "none"]
    /\ calls = <<>>
    /\ chromium = <<>>

\* line 31: the call returned its result
FetchReturns ==
    /\ view.pc = "fetch" /\ pc = "done" /\ exc = "none"
    /\ view' = [view EXCEPT !.pc = "log"]
    /\ UNCHANGED <<fetch, request, querylog, calls, chromium>>

\* line 31: the call raised; nothing in search_view catches it
FetchRaises ==
    /\ view.pc = "fetch" /\ pc = "done" /\ exc # "none"
    /\ view' = [pc |-> "done", response |-> Raised]
    /\ UNCHANGED <<fetch, request, querylog, calls, chromium>>

\* line 34 and lines 12-19: the row is created
LogQuery ==
    /\ view.pc = "log"
    /\ querylog' = Append(querylog, Entry(request, result))
    /\ view' = [view EXCEPT !.pc = "render"]
    /\ UNCHANGED <<fetch, request, calls, chromium>>

\* line 34: QueryLog.objects.create() raises; nothing in search_view catches it
LogQueryFails ==
    /\ view.pc = "log"
    /\ view' = [pc |-> "done", response |-> Raised]
    /\ UNCHANGED <<fetch, request, querylog, calls, chromium>>

\* lines 37-43
Render ==
    /\ view.pc = "render"
    /\ view' = [pc |-> "done", response |-> Page(result)]
    /\ UNCHANGED <<fetch, request, querylog, calls, chromium>>

\* line 46: a GET request
RenderIndex ==
    /\ view.pc = "index"
    /\ view' = [pc |-> "done", response |-> IndexPage]
    /\ UNCHANGED <<fetch, request, querylog, calls, chromium>>

\* The steps of the call as search_view makes it (no captcha_text), with
\* every fault, and the steps of search_view.
NextView ==
    \/ Launch \/ LaunchFails \/ NewPage \/ NewPageFails
    \/ Goto \/ GotoFails
    \/ SelectCaseType \/ SelectCaseTypeFails
    \/ SelectCaseTypeByLabel \/ SelectCaseTypeByLabelFails
    \/ FillCaseNumber \/ FillCaseNumberFails
    \/ SelectYear \/ SelectYearFails \/ SelectYearByLabel \/ SelectYearByLabelFails
    \/ ReadCaptcha \/ ReadCaptchaEmpty \/ ReadCaptchaFails
    \/ FillCaptchaAuto \/ FillCaptchaAutoFails
    \/ Click \/ ClickFails
    \/ SiteShowsSpinner \/ SiteHidesSpinner \/ SiteRendersTable
    \/ WaitTable \/ WaitTableFails
    \/ WaitSpinnerVisible \/ WaitSpinnerVisibleFails
    \/ WaitSpinnerHidden \/ WaitSpinnerHiddenFails
    \/ CaptureBaseline \/ CaptureBaselineFails
    \/ WaitContent \/ WaitContentFails
    \/ CheckFindsEmptyCell \/ CheckFindsNone \/ CheckFails
    \/ Extract \/ ExtractFails
    \/ HandlerContent \/ HandlerContentFails \/ UnexpectedContentFails
    \/ Close \/ CloseFails \/ ExitContext
    \/ FetchReturns \/ FetchRaises
    \/ LogQuery \/ LogQueryFails
    \/ Render \/ RenderIndex

SpecView == InitView /\ [][NextView]_vars

---------------------------------------------------------------------------
\* Properties

Ended == pc = "done"
Returned == pc = "done" /\ exc = "none"
Statuses == {"SUCCESS", "NO_DATA", "ERROR"}

\* C1: every call, whatever browser operation fails (the launch, the page
\* creation, any step of the pipeline, page.content() in an except block,
\* browser.close()), ends by returning a dict whose status is SUCCESS,
\* NO_DATA or ERROR; no exception reaches the caller.
C1_AlwaysReturnsResult ==
    Ended => exc = "none" /\ result.status \in Statuses

\* C2: when the call ends, by return or by exception, a browser that was
\* launched has been closed.
C2_BrowserClosedAtEnd ==
    Ended /\ browser # "none" => browser = "closed"

\* C3: a dict the call returns is well formed: ERROR has a non-empty message;
\* NO_DATA has a message and neither data nor raw_html; SUCCESS has data and
\* no message; raw_html comes only with ERROR.
C3_WellFormedResult ==
    result # NoReturn =>
        /\ result.status \in Statuses
        /\ result.status = "ERROR" =>
              "message" \in DOMAIN result /\ result.message # ""
        /\ result.status = "NO_DATA" =>
              /\ "message" \in DOMAIN result /\ result.message # ""
              /\ "data" \notin DOMAIN result
              /\ "raw_html" \notin DOMAIN result
        /\ result.status = "SUCCESS" =>
              "data" \in DOMAIN result /\ "message" \notin DOMAIN result
        /\ "raw_html" \in DOMAIN result => result.status = "ERROR"

C3_Witness == Returned /\ result.status = "NO_DATA"

EmptyKinds == {"empty_text", "empty_blank"}

\* C5 as claimed: when the table body shows an empty-results cell that has
\* text, the call returns NO_DATA, with neither data nor raw_html, and the
\* rows are never extracted; NO_DATA is returned in no other situation.
C5_NoDataIffCellWithText ==
    Returned =>
        /\ obs.checkTbody = "empty_text" =>
              result = NoData /\ "extract" \notin ran
        /\ result.status = "NO_DATA" => obs.checkTbody = "empty_text"

\* C5 as amended: a call that returns after the count of line 168 succeeded
\* returns NO_DATA, with neither data nor raw_html and without extracting
\* rows, if and only if the table body then held an empty-results cell, with
\* text or blank; when the count raises or is not reached, NO_DATA is not
\* returned.
C5_NoDataIffEmptyCellCounted ==
    /\ Returned /\ obs.check \in {"found", "absent"} =>
          (result.status = "NO_DATA" <=> obs.checkTbody \in EmptyKinds)
    /\ obs.check \in {"none", "failed"} => result.status # "NO_DATA"
    /\ result.status = "NO_DATA" =>
          /\ result = NoData
          /\ DOMAIN result = {"status", "message"}
          /\ "extract" \notin ran
          /\ rows = <<>>

C5_Witness ==
    Returned /\ result.status = "NO_DATA" /\ obs.checkTbody = "empty_blank"

C7_FormFaultCarriesRawHtml ==
    Returned /\ obs.formFault # "none" =>
        /\ result.status = "ERROR"
        /\ "raw_html" \in DOMAIN result
        /\ result.raw_html = PageContent

Undated(links) == SelectSeq(links, LAMBDA l : l.date = None)

\* C9: in every record of a SUCCESS result, judgment_links is sorted
\* descending by date, the links without a date come after all dated links and
\* keep their original relative order, and latest_judgment_date is the date
\* of the first link, or null when there is no link.
C9_LinksSortedUndatedLast ==
    result.status = "SUCCESS" =>
        \A n \in 1..Len(result.data) :
            LET rec == result.data[n]
                links == rec.judgment_links
            IN  /\ \A i, j \in 1..Len(links) :
                      i < j =>
                        /\ ~(links[i].date = None /\ links[j].date # None)
                        /\ ~StrLess(links[i].date, links[j].date)
                /\ \E r \in 1..Len(rows) :
                      /\ rec = ProcessRow(rows[r])
                      /\ [i \in 1..Len(Undated(links)) |-> Undated(links)[i].text]
                           = LET und == SelectSeq(rows[r].links,
                                           LAMBDA l : LinkInfo(l).date = None)
                             IN  [i \in 1..Len(und) |-> und[i].text]
                /\ rec.latest_judgment_date =
                      IF links # <<>> THEN links[1].date ELSE None

Count(seq, v) == Cardinality({i \in 1..Len(seq) : seq[i] = v})
Records(seq) == {seq[i] : i \in 1..Len(seq)}
DatedRecords(seq) == {d \in Records(seq) : d.latest_judgment_date # None}
InLatestYear(d, seq) ==
    /\ d.latest_judgment_date # None
    /\ \A e \in DatedRecords(seq) :
          e.latest_judgment_date[1] <= d.latest_judgment_date[1]

\* C10: if a row has a latest_judgment_date, the records returned are exactly
\* the rows whose latest_judgment_date lies in the largest year present before
\* the filter (rows without a date are dropped); if no row has a date, no row
\* is dropped.
C10_LatestYearOnly ==
    result.status = "SUCCESS" =>
        \A d \in Records(processed) \cup Records(result.data) :
            Count(result.data, d) =
                IF DatedRecords(processed) = {} \/ InLatestYear(d, processed)
                THEN Count(processed, d)
                ELSE 0

C10_Witness ==
    /\ Returned /\ result.status = "SUCCESS"
    /\ Len(result.data) = 1 /\ Len(processed) = 2
    /\ \E i \in 1..2 : /\ processed[i].latest_judgment_date # None
                       /\ processed[i] \notin Records(result.data)

\* The rank of an ISO date string in string order; a missing date ranks
\* below every date.
DateRank(x) == IF x = None THEN 0 ELSE x[1] * 10000 + x[2] * 100 + x[3]

\* C11: the records of a SUCCESS result are in descending order of
\* latest_judgment_date, and a record without a date comes after every
\* dated record.
C11_RecordsSortedDescending ==
    Returned /\ result.status = "SUCCESS" =>
        \A i, j \in 1..Len(result.data) :
            i < j =>
                /\ DateRank(result.data[i].latest_judgment_date) >=
                        DateRank(result.data[j].latest_judgment_date)
                /\ result.data[i].latest_judgment_date = None =>
                        result.data[j].latest_judgment_date = None

\* Two dated records of the same year that the page lists oldest first.
C11_Witness ==
    /\ Returned /\ result.status = "SUCCESS"
    /\ Len(result.data) = 2 /\ Len(processed) = 2
    /\ DateRank(processed[1].latest_judgment_date) > 0
    /\ DateRank(processed[1].latest_judgment_date) <
            DateRank(processed[2].latest_judgment_date)
    /\ result.data = <<processed[2], processed[1]>>

\* C12: with several calls in flight, every browser and page is acted on and
\* closed only by the call that launched it, shows only that call's search,
\* and a call's result is that of its own search.
C12_CallsIsolated ==
    /\ \A h \in 1..Len(chromium) :
            /\ chromium[h].usedBy \subseteq {chromium[h].launchedBy}
            /\ chromium[h].closedBy \in {0, chromium[h].launchedBy}
            /\ chromium[h].shows \in {0, chromium[h].launchedBy}
    /\ \A c \in DOMAIN calls :
            /\ calls[c].browser # NoHandle =>
                    chromium[calls[c].browser].launchedBy = c
            /\ calls[c].page # NoHandle =>
                    chromium[calls[c].page].launchedBy = c
            /\ calls[c].result.status = "SUCCESS" =>
                    calls[c].result.data = <<c>>

\* Call 2 launched first; call 1 ran between its steps and has returned its
\* own result while call 2 is still reading its page.
C12_Witness ==
    /\ Len(chromium) >= 2
    /\ chromium[1].launchedBy = 2 /\ chromium[2].launchedBy = 1
    /\ calls[1].pc = "done" /\ calls[1].result.status = "SUCCESS"
    /\ chromium[2].closedBy = 1
    /\ calls[2].pc = "evaluate" /\ chromium[1].open /\ chromium[1].shows = 2

\* C13: for every POST request whose fetch returned a result, search_view
\* ends with the page that result determines (the results page for SUCCESS,
\* the message page for NO_DATA and ERROR), also when recording the query
\* log fails.
C13_ResponseDespiteLogFailure ==
    view.pc = "done" /\ request.method = "POST" /\ exc = "none" =>
        /\ view.response.template =
                IF result.status = "SUCCESS" THEN "fetcher/results.html"
                ELSE "fetcher/error.html"
        /\ result.status = "SUCCESS" => view.response.data = result.data
        /\ result.status # "SUCCESS" => view.response.message = result.message

\* The rows of the QueryLog table that this request created.
Created == SelectSeq(querylog, LAMBDA e : e # EarlierEntry)

\* C14: a POST request creates exactly one QueryLog row, after its fetch has
\* ended and whether the fetch returned or raised; the row carries the
\* request's case_type, case_number and case_year and the status of the
\* result; no row is updated or deleted.
C14_OneLogEntryPerPost ==
    /\ Created # <<>> => pc = "done"
    /\ querylog # <<>> /\ Head(querylog) = EarlierEntry =>
            Created = Tail(querylog)
    /\ view.pc = "done" /\ request.method = "POST" =>
            /\ Len(Created) = 1
            /\ Created[1].case_type = request.case_type
            /\ Created[1].case_number = request.case_number
            /\ Created[1].case_year = request.case_year
            /\ exc = "none" => Created[1].status = result.status

\* The sleeps 1, 2, ..., n in order.
Backoff(n) == [k \in 1..n |-> k]

\* C15: _safe_goto makes at most Retries attempts and none after the first
\* success; the k-th failed attempt is followed by a sleep of k seconds only
\* when another attempt follows, so no sleep follows the last failed attempt;
\* after Retries failures the exception of the last attempt is raised.
C15_BackoffOnlyBetweenAttempts ==
    /\ attempt \in 0..Retries
    /\ pc = "goto" => attempt < Retries /\ delays = Backoff(attempt)
    /\ pc \notin {"launch", "new_page", "goto"} /\ attempt < Retries =>
            attempt = 0 /\ delays = <<>>
    /\ attempt = Retries =>
            /\ delays = Backoff(Retries - 1)
            /\ "fill" \notin ran
            /\ pc = "finally" => result = Error(MsgUnreachable)

\* C16: the content wait ends successfully only when the site has rendered
\* the table body for the submitted search; it never ends on the body (an
\* empty-results cell or a filled first row) that the page already held
\* before the form was submitted.
C16_WaitEndsOnRefreshedTable ==
    obs.contentWait = "met" /\ pc = "check" => dom.gen > 0

\* The positions after the last stage: an except block, the finally, the end.
EndPcs == {"content", "finally", "exit", "done"}

FormPcs == {"select_case_type", "select_case_type_label", "fill_case_number",
            "select_year", "select_year_label", "captcha", "fill_captcha_auto",
            "click"}

\* The steps that may have been started when the call is at a position.
StartedBefore(at) ==
    IF at \in {"launch", "new_page"} THEN {}
    ELSE IF at = "goto" THEN {"goto"}
    ELSE IF at \in FormPcs THEN {"goto", "fill"}
    ELSE IF at = "wait_table" THEN {"goto", "fill", "click"}
    ELSE IF at = "wait_spinner" THEN {"goto", "fill", "click", "wait_table"}
    ELSE IF at \in {"wait_spinner_hidden", "baseline", "wait_content"}
         THEN {"goto", "fill", "click", "wait_table", "wait_spinner"}
    ELSE IF at = "check"
         THEN {"goto", "fill", "click", "wait_table", "wait_spinner",
               "wait_content"}
    ELSE IF at = "extract"
         THEN {"goto", "fill", "click", "wait_table", "wait_spinner",
               "wait_content", "check"}
    ELSE {"goto", "fill", "click", "wait_table", "wait_spinner",
          "wait_content", "check", "extract", "normalize"}

\* The stages run in order, none again after a later one started, and the
\* submit, the table wait, the content wait and the extraction at most once;
\* navigation is attempted at most Retries times.
StagesInOrder ==
    /\ ran \subseteq StartedBefore(pc)
    /\ attempt \in 0..Retries
    /\ "normalize" \in ran => "extract" \in ran
    /\ "extract" \in ran => "wait_content" \in ran
    /\ "wait_content" \in ran => "wait_table" \in ran
    /\ "wait_table" \in ran => "click" \in ran
    /\ "click" \in ran => "fill" \in ran
    /\ "fill" \in ran => "goto" \in ran

\* A stage that failed was the last one: exhausted navigation, a fill or the
\* click or the CAPTCHA read, the table wait, the content wait, the
\* extraction.  The call is then over, and a result it returns is an ERROR.
FailureEndsWithError ==
    /\ attempt = Retries => pc \in EndPcs /\ ran = {"goto"}
    /\ obs.formFault # "none" \/ obs.captcha \in {"empty", "absent"} =>
            pc \in EndPcs /\ "wait_table" \notin ran
    /\ obs.contentWait \in {"unmet", "raised"} =>
            pc \in EndPcs /\ "check" \notin ran
    /\ pc \in EndPcs /\ "wait_table" \in ran
            /\ "wait_spinner" \notin ran => handler # "none"
    /\ pc \in EndPcs /\ "extract" \in ran
            /\ "normalize" \notin ran => handler # "none"
    /\ Returned /\ "normalize" \notin ran /\ obs.check # "found" =>
            result.status = "ERROR"
    /\ Returned /\ result.status = "SUCCESS" => "normalize" \in ran

\* C17 (as stated): the stages run in order and at most once, and a failure
\* in any stage, the indicator wait included, ends the request with status
\* ERROR without running a later stage.
C17_AnyStageFailureEndsRequest ==
    /\ StagesInOrder
    /\ FailureEndsWithError
    /\ obs.spinner = "stuck" =>
            /\ pc \in EndPcs /\ "wait_content" \notin ran
            /\ Returned => result.status = "ERROR"

\* C17 (amended): the stages run in order and at most once, and a failed
\* navigation, fill, click, CAPTCHA read, table wait, content wait or
\* extraction is the last stage of the call, whose result, if it returns
\* one, is an ERROR.
C17_StagesInOrderFailureTerminal == StagesInOrder /\ FailureEndsWithError

\* The extraction failed after every earlier stage had run, the indicator
\* wait having timed out on a visible indicator.
C17_Witness ==
    /\ Returned /\ result.status = "ERROR"
    /\ obs.spinner = "stuck"
    /\ "extract" \in ran /\ "normalize" \notin ran

\* C18 (as stated): when the indicator is not seen within its window the
\* call moves on to the content wait with no ERROR; when it is seen, the
\* content wait starts only after the indicator was found hidden again.
C18_ContentWaitAfterIndicatorHidden ==
    /\ obs.spinner = "unseen" /\ pc = "baseline" =>
            result = NoReturn /\ handler = "none" /\ exc = "none"
    /\ obs.spinner = "seen" => pc = "wait_spinner_hidden"
    /\ pc \in {"baseline", "wait_content"} => obs.spinner \in {"unseen", "hidden"}

\* C18 (amended): the wait for the visible indicator is left either for the
\* wait for the hidden one, the indicator being visible, or, on its timeout,
\* for the content wait with no ERROR; the wait for the hidden indicator is
\* left for the content wait, either with the indicator hidden or on its own
\* timeout, and with no ERROR.
C18_IndicatorWaitsBestEffort ==
    [][/\ pc = "wait_spinner" /\ pc' # pc =>
            /\ result' = NoReturn /\ handler' = "none" /\ exc' = "none"
            /\ \/ pc' = "wait_spinner_hidden" /\ dom.spinner
                  /\ obs'.spinner = "seen"
               \/ pc' = "baseline" /\ obs'.spinner = "unseen"
       /\ pc = "wait_spinner_hidden" /\ pc' # pc =>
            /\ pc' = "baseline"
            /\ result' = NoReturn /\ handler' = "none" /\ exc' = "none"
            /\ \/ obs'.spinner = "hidden" /\ ~dom.spinner
               \/ obs'.spinner = "stuck"]_vars

\* The content wait has started although the indicator, once seen, is still
\* visible: the wait for the hidden indicator timed out.
C18_Witness ==
    /\ pc = "wait_content" /\ obs.spinner = "stuck" /\ dom.spinner

\* C19: a record made from a date cell without anchors (the snapshot then
\* holds one link with a null href) has exactly one judgment link, whose
\* text is the text of the cell and whose url is null.
C19_NoAnchorCellGivesNullUrl ==
    Returned /\ result.status = "SUCCESS" =>
        \A i \in 1..Len(rows) :
            /\ Len(rows[i].links) = 1
            /\ rows[i].links[1].href = NullHref
            /\ processed[i] \in Records(result.data)
            => /\ Len(processed[i].judgment_links) = 1
               /\ processed[i].judgment_links[1].text = rows[i].links[1].text
               /\ processed[i].judgment_links[1].url = NullHref

\* The positions of the DD-MM-YYYY shaped substrings of a string, and those
\* among them that are dates of the calendar.
Shaped(str) == {k \in 1..Len(str) : str[k].k = "d"}
Valid(str) == {k \in Shaped(str) : strptime(str[k]) # NoDate}

First(set) == CHOOSE k \in set : \A z \in set : k <= z

\* The first valid date anywhere in the string, if there is one.
FirstValidDate(str) ==
    IF Valid(str) = {} THEN NoDate ELSE strptime(str[First(Valid(str))])

\* The first shaped substring, if it is a valid date.
FirstShapedDate(str) ==
    IF Shaped(str) = {} THEN NoDate ELSE strptime(str[First(Shaped(str))])

\* The url a snapshot link is stored with.
UrlOf(link) == IF link.href.null THEN <<>> ELSE link.href.s

\* Every link of the snapshot is in its record with the date that DateIn
\* finds in its text or else in its url, or with none.
LinksDatedBy(DateIn(_)) ==
    "normalize" \in ran =>
        \A i \in 1..Len(rows) : \A k \in 1..Len(rows[i].links) :
            LET link == rows[i].links[k]
                dt == IF DateIn(link.text) # NoDate THEN DateIn(link.text)
                      ELSE DateIn(UrlOf(link))
            IN  \E j \in 1..Len(processed[i].judgment_links) :
                    LET li == processed[i].judgment_links[j]
                    IN  /\ li.text = link.text
                        /\ li.url.s = UrlOf(link)
                        /\ li.date = IF dt = NoDate THEN None
                                      ELSE <<dt \div 10000, (dt \div 100) % 100,
                                             dt % 100>>

\* "Order dated 05-03-2024 pdf" parses to 2024-03-05, "no date here" to None.
ParseExamples ==
    /\ _parse_date_from_text(<<W, S, W, S, D(5, 3, 2024), S, W>>) = 20240305
    /\ _parse_date_from_text(<<W, S, W, S, W>>) = NoDate

\* C20 (as stated): the date of a link is the valid DD-MM-YYYY date found
\* anywhere in its text, otherwise the one found anywhere in its url,
\* otherwise none.
C20_DateFromAnyValidMatch == LinksDatedBy(FirstValidDate) /\ ParseExamples

\* C20 (amended): the date of a link is that of the first DD-MM-YYYY shaped
\* substring of its text if that substring is a valid date, otherwise that
\* of the first shaped substring of its url if valid, otherwise none.
C20_DateFromFirstMatch == LinksDatedBy(FirstShapedDate) /\ ParseExamples

\* A link whose text holds 31-02-2024 before 01-03-2024 is dated by its url.
C20_Witness ==
    /\ Returned /\ result.status = "SUCCESS"
    /\ \E i \in 1..Len(processed) :
           \E j \in 1..Len(processed[i].judgment_links) :
              /\ processed[i].judgment_links[j].text =
                      <<D(31, 2, 2024), S, D(1, 3, 2024)>>
              /\ processed[i].judgment_links[j].date = <<2024, 5, 1>>

====
